---- MODULE Spec2Model ----
\* Kyber CCAKEM encapsulate (include/encapsulation.hpp) and CPAPKE encrypt
\* (include/encryption.hpp) as a state machine.  Byte strings and polynomials
\* are terms over the inputs, written as strings: the hash functions, the XOFs
\* and the polynomial routines are free constructors, so that two values are
\* equal exactly when they were computed the same way from the same inputs.
EXTENDS Integers, Sequences, FiniteSets, TLC

\* ------------------------------------------------------------------ bounds
\* calls the caller makes one after the other on the same stack
MaxRuns == 2
\* 3-byte groups a parse may read beyond the 384 bytes it needs at least
MaxReject == 1

\* template parameters (k, eta1, eta2, du, dv) the routines are instantiated with
KSet == {2, 3, 4}
Eta1Set == {2, 3}
Eta2Set == {2}
DuSet == {10, 11}
DvSet == {4, 5}

\* n zero bytes
ZeroBytes(n) == "00*" \o ToString(n)
\* a 32-byte all-zero block
Z32 == ZeroBytes(32)
\* caller inputs: public keys, and for a direct call of encrypt msg and rcoin
PkSet == {"pkA", "pkB"}
MsgSet == {Z32, "msgA"}
CoinSet == {Z32, "coinA"}
\* the (msg, rcoin) pairs of a direct call: each of the two all-zero at a time
EncryptInputs == {in \in MsgSet \X CoinSet : in[1] # Z32 \/ in[2] # Z32}
\* what the system RNG may return for a 32-byte request
RngSet == {Z32, "rndA"}
\* content of memory nobody has written
Garbage == "??"

\* --------------------------------------------------------------- byte terms
Str(n) == ToString(n)

\* len bytes of buf starting at byte off
Slice(buf, off, len) == buf \o "[" \o Str(off) \o ":+" \o Str(len) \o "]"

RECURSIVE Cat(_)
\* the bytes of a buffer kept as a sequence of 32-byte blocks
Cat(s) == IF Len(s) = 0 THEN ""
          ELSE IF Len(s) = 1 THEN s[1]
          ELSE s[1] \o "|" \o Cat(Tail(s))

ZeroBlocks(n) == [b \in 1..n |-> Z32]
AllZero(buf) == \A b \in DOMAIN buf : buf[b] = Z32

\* one-byte value as it is stored in a byte buffer
Byte(n) == n % 256

\* ------------------------------------------------------ hash / XOF adapters
\* sha3_256::hash(in, len, out): 32 bytes
Sha3_256(data) == "H(" \o data \o ")"
\* sha3_512::hash(in, len, out): 64 bytes, as two 32-byte blocks
Sha3_512(data) == << Slice("G(" \o data \o ")", 0, 32), Slice("G(" \o data \o ")", 32, 32) >>

\* a SHAKE instance: what it absorbed, in how many hash() calls, and how many
\* bytes were read from it
NoHasher == [id |-> 0, kind |-> "none", absorbed |-> "", alen |-> 0, inputs |-> 0,
             squeezed |-> 0, late |-> FALSE]
\* hasher.hash(in, len): absorb len bytes and finalize
XofHash(h, data, len) ==
    [h EXCEPT !.absorbed = IF h.absorbed = "" THEN data ELSE h.absorbed \o "|" \o data,
              !.alen = h.alen + len,
              !.inputs = h.inputs + 1,
              !.late = h.late \/ h.squeezed > 0]
\* hasher.read(out, len): squeeze len bytes
XofRead(h, len) == [h EXCEPT !.squeezed = h.squeezed + len]
\* the first len bytes of the output stream of an instance
XofStream(h, len) == Slice(h.kind \o "(" \o h.absorbed \o ")", 0, len)

\* -------------------------------------------------------------- polynomials
\* ntt::N, coefficients per polynomial
NttN == 256

ZeroPoly == [mode |-> "zero", val |-> "0"]

\* kyber_utils::decode<l>: 32*l bytes to a polynomial
Decode(l, bytes) == "decode" \o Str(l) \o "(" \o bytes \o ")"
\* kyber_utils::encode<l>: a polynomial to 32*l bytes
Encode(l, p) == "encode" \o Str(l) \o "(" \o p.val \o ")"
\* kyber_utils::parse: rejection sampling from a SHAKE128 stream
Parse(h) == [mode |-> "ntt", val |-> "parse(" \o h.kind \o "(" \o h.absorbed \o "))"]
\* kyber_utils::cbd<eta>: 64*eta bytes to a noise polynomial
Cbd(eta, bytes) == [mode |-> "normal", val |-> "cbd" \o Str(eta) \o "(" \o bytes \o ")"]
\* kyber_utils::poly_compress<d> / poly_decompress<d>, in place
PolyCompress(d, p) ==
    [mode |-> IF p.mode \in {"normal", "zero"} THEN "normal" ELSE "invalid",
     val |-> "compress" \o Str(d) \o "(" \o p.val \o ")"]
PolyDecompress(d, p) ==
    [mode |-> IF p.mode \in {"normal", "zero"} THEN "normal" ELSE "invalid",
     val |-> "decompress" \o Str(d) \o "(" \o p.val \o ")"]
\* ntt::ntt, in place: normal mode to NTT domain
Ntt(p) == [mode |-> IF p.mode = "normal" THEN "ntt" ELSE "invalid",
           val |-> "ntt(" \o p.val \o ")"]
\* ntt::intt, in place: NTT domain to normal mode
Intt(p) == [mode |-> IF p.mode = "ntt" THEN "normal" ELSE "invalid",
            val |-> "intt(" \o p.val \o ")"]
\* ntt::polymul: product of two NTT-domain polynomials
PolyMul(a, b) ==
    [mode |-> IF a.mode = "ntt" /\ b.mode = "ntt" THEN "ntt" ELSE "invalid",
     val |-> "polymul(" \o a.val \o "," \o b.val \o ")"]
\* the coefficient-wise loop  a[l] += b[l]
PolyAdd(a, b) ==
    [mode |-> IF a.mode = "zero" THEN b.mode
              ELSE IF b.mode = "zero" \/ a.mode = b.mode THEN a.mode
              ELSE "invalid",
     val |-> IF a.val = "0" THEN b.val
             ELSE IF b.val = "0" THEN a.val
             ELSE "(" \o a.val \o " + " \o b.val \o ")"]

\* an array of n zero-initialised polynomials, indexed from 0
ZeroPolys(n) == [s \in 0..(n - 1) |-> ZeroPoly]
\* the polynomial a coefficient offset points at
Slot(off) == off \div NttN

\* ------------------------------------------------------------------- state
VARIABLES
    k, eta1, eta2, du, dv,             \* template parameters
    entry, pubkey, cipher, runs, history, \* the caller: routine called, its arguments, past calls
    m, g_in, g_out, kdf_in, kdf_hasher, rng_log, \* encapsulate's locals, RNG requests of this call
    msg, rcoin,                        \* encrypt's arguments
    t_prime, xof_in, A_prime, N, prf_in, prf_out_eta1, prf_out_eta2,
    r, e1, e2, u, tmp, v, m_poly, hasher, \* encrypt's locals
    pc, i, j,                          \* program point and loop counters
    prf_log, writes, trace, xof_count  \* PRF calls, writes to enc, transforms applied, XOFs created

tparams == << k, eta1, eta2, du, dv >>
caller == << entry, pubkey, cipher, runs, history >>
encaps_locals == << m, g_in, g_out, kdf_in, kdf_hasher, rng_log >>
enc_args == << msg, rcoin >>
enc_bytes == << xof_in, N, prf_in, prf_out_eta1, prf_out_eta2, hasher >>
enc_polys == << t_prime, A_prime, r, e1, e2, u, tmp, v, m_poly >>
logs == << prf_log, writes, trace, xof_count >>
vars == << tparams, caller, encaps_locals, enc_args, enc_bytes, enc_polys, pc, i, j, logs >>

\* constexpr size_t pklen, ctlen
pklen == k * 12 * 32 + 32
ctlen == k * du * 32 + dv * 32

\* the ctlen bytes read from the caller's cipher buffer
CipherBytes == Cat([b \in 1..(ctlen \div 32) |-> cipher[b]])

\* len bytes of data written at byte offset off of a buffer of 32-byte blocks
MemWrite(mem, off, len, data) ==
    [b \in DOMAIN mem |->
        IF (b - 1) * 32 >= off /\ (b - 1) * 32 < off + len
        THEN Slice(data, (b - 1) * 32 - off, 32)
        ELSE mem[b]]

Op(op, on, idx, modes) == [op |-> op, on |-> on, idx |-> idx, modes |-> modes]

\* one instance hoisted out of the loops and used again
C10_Hoisted(kind) == IF hasher.kind = kind THEN hasher ELSE [NoHasher EXCEPT !.id = xof_count + 1, !.kind = kind]
\* shake128::shake128 hasher{} / shake256::shake256 hasher{}: a fresh instance
NewHasher(kind) == [NoHasher EXCEPT !.id = xof_count + 1, !.kind = kind]

\* ------------------------------------------------- the places of the source
\* encapsulate: the msg and rcoin arguments of the call of cpapke::encrypt
\* a call that hands the sampled m itself to encrypt
C1_SampledMsgArg == m[1]
EncryptMsgArg == g_in[1]
EncryptCoinArg == g_out[2]
\* encapsulate: memcpy(kdf_in, g_out, 32)
\* a copy of the wrong half of g_out
C4_CoinAsPreKey == g_out[2]
KdfPreKey == g_out[1]
\* encrypt: xof_in[32] and xof_in[33] for matrix entry (i, j)
\* the index bytes written in the order of key generation
C2_ColumnFirst(row, col) == col
XofByte32(row, col) == row
XofByte33(row, col) == col
\* sizeof(xof_in), sizeof(prf_in), sizeof(kdf_in)
SizeofXofIn == 34
SizeofPrfIn == 33
SizeofKdfIn == 64
\* encrypt: uint8_t N = 0 and N += 1
\* a counter that keeps its value from the previous call
C7_StaleN == N
InitN == 0
\* a counter advanced twice per polynomial
C3_SkipN(n) == (n + 2) % 256
NextN(n) == (n + 1) % 256
\* encrypt: offsets into t_prime, A_prime, r, e1, u (coefficients), pubkey and enc (bytes)
TOff(row) == row * NttN
PkOff(row) == row * 12 * 32
AGenOff(row, col) == (row * k + col) * NttN
\* the matrix read transposed
C8_TransposedOff(row, col) == (col * k + row) * NttN
AOff(row, col) == (row * k + col) * NttN
ROff(col) == col * NttN
\* the u segments laid out with the width of v
C5_NarrowOff(row) == row * dv * 32
EncOffU(row) == row * du * 32
EncOffV == k * du * 32
\* encrypt: bound of the loop of step 18
\* a loop that stops one polynomial short
C9_ShortLoop == k - 1
NttCount == k
\* encrypt: the bytes hashed as xof_in and prf_in
XofInBytes(x) == x.seed \o "|" \o Str(x.b32) \o "|" \o Str(x.b33)
PrfInBytes(p) == p.coin \o "|" \o Str(p.n)

\* --------------------------------------------------------------------- Init
Init ==
    /\ k \in KSet /\ eta1 \in Eta1Set /\ eta2 \in Eta2Set /\ du \in DuSet /\ dv \in DvSet
    /\ entry \in {"encapsulate", "encrypt"} /\ pubkey \in PkSet
    /\ cipher = [b \in 1..(ctlen \div 32) |-> Garbage]
    /\ runs = 0 /\ history = << >>
    /\ m = << >> /\ g_in = << >> /\ g_out = << >> /\ kdf_in = << >>
    /\ kdf_hasher = NoHasher /\ rng_log = << >>
    /\ msg = Garbage /\ rcoin = Garbage
    /\ t_prime = << >> /\ A_prime = << >> /\ r = << >> /\ e1 = << >> /\ u = << >>
    /\ e2 = ZeroPoly /\ tmp = ZeroPoly /\ v = ZeroPoly /\ m_poly = ZeroPoly
    /\ xof_in = [seed |-> Garbage, b32 |-> 0, b33 |-> 0]
    /\ prf_in = [coin |-> Garbage, n |-> 0]
    /\ N = 0 /\ prf_out_eta1 = Garbage /\ prf_out_eta2 = Garbage
    /\ hasher = NoHasher
    /\ pc = "idle" /\ i = 0 /\ j = 0
    /\ prf_log = << >> /\ writes = << >> /\ trace = << >> /\ xof_count = 0

\* ------------------------------------------------------------- encapsulate
\* entering encrypt: t_prime is declared (step 2)
EnterEncrypt(msgv, coinv) ==
    /\ msg' = msgv /\ rcoin' = coinv
    /\ t_prime' = ZeroPolys(k)
    /\ i' = 0 /\ j' = 0
    /\ pc' = "decode_t"
    /\ prf_log' = << >> /\ writes' = << >> /\ trace' = << >>

\* the caller (a program that uses encapsulate) calls encapsulate(pubkey, cipher):
\* the four buffers are declared
CallEncapsulate ==
    /\ pc = "idle" /\ runs < MaxRuns
    /\ entry = "encapsulate"
    /\ m' = ZeroBlocks(1) /\ g_in' = ZeroBlocks(2) /\ g_out' = ZeroBlocks(2)
    /\ kdf_in' = ZeroBlocks(2)
    /\ rng_log' = << >>
    /\ pc' = "rng"
    /\ prf_log' = << >> /\ writes' = << >> /\ trace' = << >>
    /\ UNCHANGED << tparams, caller, kdf_hasher, enc_args,
                    enc_bytes, enc_polys, i, j, xof_count >>

\* kyber_utils::random_data<uint8_t>(m, sizeof(m))
RandomData ==
    /\ pc = "rng"
    /\ \E x \in RngSet : m' = << x >>
    /\ rng_log' = Append(rng_log, 32)
    /\ pc' = "hash_m"
    /\ UNCHANGED << tparams, caller, g_in, g_out, kdf_in, kdf_hasher, enc_args,
                    enc_bytes, enc_polys, i, j, logs >>

\* sha3_256::hash(m, sizeof(m), g_in)
HashM ==
    /\ pc = "hash_m"
    /\ g_in' = [g_in EXCEPT ![1] = Sha3_256(Cat(m))]
    /\ pc' = "hash_pk"
    /\ UNCHANGED << tparams, caller, m, g_out, kdf_in, kdf_hasher, rng_log, enc_args,
                    enc_bytes, enc_polys, i, j, logs >>

\* sha3_256::hash(pubkey, pklen, g_in + 32)
HashPk ==
    /\ pc = "hash_pk"
    /\ g_in' = [g_in EXCEPT ![2] = Sha3_256(Slice(pubkey, 0, pklen))]
    /\ pc' = "hash_g"
    /\ UNCHANGED << tparams, caller, m, g_out, kdf_in, kdf_hasher, rng_log, enc_args,
                    enc_bytes, enc_polys, i, j, logs >>

\* sha3_512::hash(g_in, sizeof(g_in), g_out)
HashG ==
    /\ pc = "hash_g"
    /\ g_out' = Sha3_512(Cat(g_in))
    /\ pc' = "call_encrypt"
    /\ UNCHANGED << tparams, caller, m, g_in, kdf_in, kdf_hasher, rng_log, enc_args,
                    enc_bytes, enc_polys, i, j, logs >>

\* cpapke::encrypt<k, eta1, eta2, du, dv>(pubkey, g_in, g_out + 32, cipher)
EncapsCallEncrypt ==
    /\ pc = "call_encrypt"
    /\ EnterEncrypt(EncryptMsgArg, EncryptCoinArg)
    /\ UNCHANGED << tparams, caller, encaps_locals, enc_bytes,
                    A_prime, r, e1, e2, u, tmp, v, m_poly, xof_count >>

\* the caller (a program that uses encrypt) calls encrypt(pubkey, msg, rcoin, cipher)
CallEncrypt ==
    /\ pc = "idle" /\ runs < MaxRuns
    /\ entry = "encrypt"
    /\ rng_log' = << >>
    /\ \E in \in EncryptInputs : EnterEncrypt(in[1], in[2])
    /\ UNCHANGED << tparams, caller, m, g_in, g_out, kdf_in,
                    kdf_hasher, enc_bytes, A_prime, r, e1, e2, u, tmp, v, m_poly,
                    xof_count >>

\* memcpy(kdf_in, g_out, 32)
KdfCopy ==
    /\ pc = "kdf_copy"
    /\ kdf_in' = [kdf_in EXCEPT ![1] = KdfPreKey]
    /\ pc' = "hash_c"
    /\ UNCHANGED << tparams, caller, m, g_in, g_out, kdf_hasher, rng_log, enc_args,
                    enc_bytes, enc_polys, i, j, logs >>

\* sha3_256::hash(cipher, ctlen, kdf_in + 32)
HashC ==
    /\ pc = "hash_c"
    /\ kdf_in' = [kdf_in EXCEPT ![2] = Sha3_256(CipherBytes)]
    /\ pc' = "kdf_absorb"
    /\ UNCHANGED << tparams, caller, m, g_in, g_out, kdf_hasher, rng_log, enc_args,
                    enc_bytes, enc_polys, i, j, logs >>

\* shake256::shake256 hasher{}; hasher.hash(kdf_in, sizeof(kdf_in))
KdfAbsorb ==
    /\ pc = "kdf_absorb"
    /\ kdf_hasher' = XofHash(NewHasher("shake256"), Cat(kdf_in), SizeofKdfIn)
    /\ xof_count' = xof_count + 1
    /\ pc' = "encaps_ret"
    /\ UNCHANGED << tparams, caller, m, g_in, g_out, kdf_in, rng_log, enc_args,
                    enc_bytes, enc_polys, i, j, prf_log, writes, trace >>

\* what a finished call leaves with the caller
Summary ==
    [entry |-> entry, pubkey |-> pubkey,
     msg |-> IF entry = "encrypt" THEN msg ELSE "",
     rcoin |-> IF entry = "encrypt" THEN rcoin ELSE "",
     rng |-> IF entry = "encapsulate" THEN m ELSE << >>,
     draws |-> rng_log,
     cipher |-> cipher,
     kdf |-> IF entry = "encapsulate" THEN kdf_hasher ELSE NoHasher]

\* return hasher
EncapsReturn ==
    /\ pc = "encaps_ret"
    /\ history' = Append(history, Summary)
    /\ runs' = runs + 1
    /\ pc' = "idle"
    /\ UNCHANGED << tparams, entry, pubkey, cipher, encaps_locals, enc_args,
                    enc_bytes, enc_polys, i, j, logs >>

\* ------------------------------------------------------------------ encrypt
\* step 2: kyber_utils::decode<12>(pubkey + pkoff, t_prime + toff)
DecodeT ==
    /\ pc = "decode_t"
    /\ t_prime' = [t_prime EXCEPT ![Slot(TOff(i))] =
                      [mode |-> "ntt", val |-> Decode(12, Slice(pubkey, PkOff(i), 12 * 32))]]
    /\ i' = i + 1
    /\ pc' = IF i + 1 < k THEN "decode_t" ELSE "rho"
    /\ UNCHANGED << tparams, caller, encaps_locals, enc_args, enc_bytes,
                    A_prime, r, e1, e2, u, tmp, v, m_poly, j, logs >>

\* step 3: rho = pubkey + k * 12 * 32; xof_in and A_prime are declared,
\* memcpy(xof_in, rho, sizeof(xof_in) - 2)
Rho ==
    /\ pc = "rho"
    /\ xof_in' = [seed |-> Slice(pubkey, k * 12 * 32, SizeofXofIn - 2), b32 |-> 0, b33 |-> 0]
    /\ A_prime' = ZeroPolys(k * k)
    /\ i' = 0 /\ j' = 0
    /\ pc' = "xof_absorb"
    /\ UNCHANGED << tparams, caller, encaps_locals, enc_args, N, prf_in, prf_out_eta1,
                    prf_out_eta2, hasher, t_prime, r, e1, e2, u, tmp, v, m_poly, logs >>

\* xof_in[32] = i; xof_in[33] = j; shake128::shake128 hasher{}; hasher.hash(xof_in, 34)
XofAbsorb ==
    /\ pc = "xof_absorb"
    /\ xof_in' = [xof_in EXCEPT !.b32 = Byte(XofByte32(i, j)), !.b33 = Byte(XofByte33(i, j))]
    /\ hasher' = XofHash(NewHasher("shake128"), XofInBytes(xof_in'), SizeofXofIn)
    /\ xof_count' = xof_count + 1
    /\ pc' = "xof_parse"
    /\ UNCHANGED << tparams, caller, encaps_locals, enc_args, N, prf_in, prf_out_eta1,
                    prf_out_eta2, enc_polys, i, j, prf_log, writes, trace >>

\* kyber_utils::parse(&hasher, A_prime + off): reads 3-byte groups until it has
\* 256 coefficients, at least 384 bytes
XofParse ==
    /\ pc = "xof_parse"
    /\ \E rejected \in 0..MaxReject :
          hasher' = XofRead(hasher, 3 * (NttN \div 2 + rejected))
    /\ A_prime' = [A_prime EXCEPT ![Slot(AGenOff(i, j))] = Parse(hasher)]
    /\ j' = IF j + 1 < k THEN j + 1 ELSE 0
    /\ i' = IF j + 1 < k THEN i ELSE i + 1
    /\ pc' = IF j + 1 < k \/ i + 1 < k THEN "xof_absorb" ELSE "prf_init"
    /\ UNCHANGED << tparams, caller, encaps_locals, enc_args, xof_in, N, prf_in,
                    prf_out_eta1, prf_out_eta2, t_prime, r, e1, e2, u, tmp, v, m_poly, logs >>

\* step 1, 9: N = 0; prf_in, prf_out_eta1, prf_out_eta2 and r are declared,
\* memcpy(prf_in, rcoin, sizeof(prf_in) - 1)
PrfInit ==
    /\ pc = "prf_init"
    /\ N' = InitN
    /\ prf_in' = [coin |-> rcoin, n |-> 0]
    /\ prf_out_eta1' = ZeroBytes(64 * eta1)
    /\ prf_out_eta2' = ZeroBytes(64 * eta2)
    /\ r' = ZeroPolys(k)
    /\ i' = 0
    /\ pc' = "r_absorb"
    /\ UNCHANGED << tparams, caller, encaps_locals, enc_args, xof_in, hasher,
                    t_prime, A_prime, e1, e2, u, tmp, v, m_poly, j, logs >>

\* prf_in[32] = N; shake256::shake256 hasher{}; hasher.hash(prf_in, sizeof(prf_in))
PrfAbsorb(poly, idx) ==
    /\ prf_in' = [prf_in EXCEPT !.n = Byte(N)]
    /\ hasher' = XofHash(NewHasher("shake256"), PrfInBytes(prf_in'), SizeofPrfIn)
    /\ xof_count' = xof_count + 1
    /\ prf_log' = Append(prf_log, [n |-> prf_in'.n, poly |-> poly, idx |-> idx])

\* step 9..12, first half of an iteration
RAbsorb ==
    /\ pc = "r_absorb"
    /\ PrfAbsorb("r", i)
    /\ pc' = "r_read"
    /\ UNCHANGED << tparams, caller, encaps_locals, enc_args, xof_in, N, prf_out_eta1,
                    prf_out_eta2, enc_polys, i, j, writes, trace >>

\* hasher.read(prf_out_eta1, 64 * eta1); cbd<eta1>(prf_out_eta1, r + off); N += 1
RRead ==
    /\ pc = "r_read"
    /\ hasher' = XofRead(hasher, 64 * eta1)
    /\ prf_out_eta1' = XofStream(hasher, 64 * eta1)
    /\ r' = [r EXCEPT ![Slot(ROff(i))] = Cbd(eta1, prf_out_eta1')]
    /\ N' = NextN(N)
    /\ i' = i + 1
    /\ pc' = IF i + 1 < k THEN "r_absorb" ELSE "e1_init"
    /\ UNCHANGED << tparams, caller, encaps_locals, enc_args, xof_in, prf_in,
                    prf_out_eta2, t_prime, A_prime, e1, e2, u, tmp, v, m_poly, j, logs >>

\* step 13: e1 is declared
E1Init ==
    /\ pc = "e1_init"
    /\ e1' = ZeroPolys(k)
    /\ i' = 0
    /\ pc' = "e1_absorb"
    /\ UNCHANGED << tparams, caller, encaps_locals, enc_args, enc_bytes,
                    t_prime, A_prime, r, e2, u, tmp, v, m_poly, j, logs >>

\* step 13..16, first half of an iteration
E1Absorb ==
    /\ pc = "e1_absorb"
    /\ PrfAbsorb("e1", i)
    /\ pc' = "e1_read"
    /\ UNCHANGED << tparams, caller, encaps_locals, enc_args, xof_in, N, prf_out_eta1,
                    prf_out_eta2, enc_polys, i, j, writes, trace >>

\* hasher.read(prf_out_eta2, 64 * eta2); cbd<eta2>(prf_out_eta2, e1 + off); N += 1
E1Read ==
    /\ pc = "e1_read"
    /\ hasher' = XofRead(hasher, 64 * eta2)
    /\ prf_out_eta2' = XofStream(hasher, 64 * eta2)
    /\ e1' = [e1 EXCEPT ![Slot(i * NttN)] = Cbd(eta2, prf_out_eta2')]
    /\ N' = NextN(N)
    /\ i' = i + 1
    /\ pc' = IF i + 1 < k THEN "e1_absorb" ELSE "e2_absorb"
    /\ UNCHANGED << tparams, caller, encaps_locals, enc_args, xof_in, prf_in,
                    prf_out_eta1, t_prime, A_prime, r, e2, u, tmp, v, m_poly, j, logs >>

\* step 17: e2 is declared; prf_in[32] = N; hasher{}; hasher.hash(prf_in, 33)
E2Absorb ==
    /\ pc = "e2_absorb"
    /\ e2' = ZeroPoly
    /\ PrfAbsorb("e2", 0)
    /\ pc' = "e2_read"
    /\ UNCHANGED << tparams, caller, encaps_locals, enc_args, xof_in, N, prf_out_eta1,
                    prf_out_eta2, t_prime, A_prime, r, e1, u, tmp, v, m_poly, i, j,
                    writes, trace >>

\* hasher.read(prf_out_eta2, 64 * eta2); cbd<eta2>(prf_out_eta2, e2)
E2Read ==
    /\ pc = "e2_read"
    /\ hasher' = XofRead(hasher, 64 * eta2)
    /\ prf_out_eta2' = XofStream(hasher, 64 * eta2)
    /\ e2' = Cbd(eta2, prf_out_eta2')
    /\ i' = 0
    /\ pc' = "ntt"
    /\ UNCHANGED << tparams, caller, encaps_locals, enc_args, xof_in, N, prf_in,
                    prf_out_eta1, t_prime, A_prime, r, e1, u, tmp, v, m_poly, j, logs >>

\* step 18: ntt::ntt(r + off)
NttR ==
    /\ pc = "ntt"
    /\ r' = [r EXCEPT ![Slot(ROff(i))] = Ntt(r[Slot(ROff(i))])]
    /\ trace' = Append(trace, Op("ntt", "r", i, << r[Slot(ROff(i))].mode >>))
    /\ i' = i + 1
    /\ pc' = IF i + 1 < NttCount THEN "ntt" ELSE "u_init"
    /\ UNCHANGED << tparams, caller, encaps_locals, enc_args, enc_bytes,
                    t_prime, A_prime, e1, e2, u, tmp, v, m_poly, j, prf_log, writes,
                    xof_count >>

\* step 19: u and tmp are declared, memset(u, 0, sizeof(u))
UInit ==
    /\ pc = "u_init"
    /\ u' = ZeroPolys(k)
    /\ tmp' = ZeroPoly
    /\ i' = 0 /\ j' = 0
    /\ pc' = "u_mul"
    /\ UNCHANGED << tparams, caller, encaps_locals, enc_args, enc_bytes,
                    t_prime, A_prime, r, e1, e2, v, m_poly, logs >>

\* ntt::polymul(A_prime + aoff, r + roff, tmp); u[uoff + l] += tmp[l]
UMul ==
    /\ pc = "u_mul"
    /\ LET a == A_prime[Slot(AOff(i, j))]
           b == r[Slot(ROff(j))]
           acc == u[Slot(i * NttN)]
       IN /\ tmp' = PolyMul(a, b)
          /\ u' = [u EXCEPT ![Slot(i * NttN)] = PolyAdd(acc, tmp')]
          /\ trace' = trace \o << Op("polymul", "u", i, << a.mode, b.mode >>),
                                  Op("acc", "u", i, << acc.mode, tmp'.mode >>) >>
    /\ j' = j + 1
    /\ pc' = IF j + 1 < k THEN "u_mul" ELSE "u_intt"
    /\ UNCHANGED << tparams, caller, encaps_locals, enc_args, enc_bytes,
                    t_prime, A_prime, r, e1, e2, v, m_poly, i, prf_log, writes, xof_count >>

\* ntt::intt(u + uoff); u[uoff + l] += e1[e1off + l]
UIntt ==
    /\ pc = "u_intt"
    /\ LET acc == u[Slot(i * NttN)]
           noise == e1[Slot(i * NttN)]
       IN /\ u' = [u EXCEPT ![Slot(i * NttN)] = PolyAdd(Intt(acc), noise)]
          /\ trace' = trace \o << Op("intt", "u", i, << acc.mode >>),
                                  Op("add", "u", i, << Intt(acc).mode, noise.mode >>) >>
    /\ i' = i + 1 /\ j' = 0
    /\ pc' = IF i + 1 < k THEN "u_mul" ELSE "v_init"
    /\ UNCHANGED << tparams, caller, encaps_locals, enc_args, enc_bytes,
                    t_prime, A_prime, r, e1, e2, tmp, v, m_poly, prf_log, writes, xof_count >>

\* step 20: v is declared, memset(v, 0, sizeof(v))
VInit ==
    /\ pc = "v_init"
    /\ v' = ZeroPoly
    /\ i' = 0
    /\ pc' = "v_mul"
    /\ UNCHANGED << tparams, caller, encaps_locals, enc_args, enc_bytes,
                    t_prime, A_prime, r, e1, e2, u, tmp, m_poly, j, logs >>

\* ntt::polymul(t_prime + toff, r + roff, tmp); v[l] += tmp[l]
VMul ==
    /\ pc = "v_mul"
    /\ LET a == t_prime[Slot(TOff(i))]
           b == r[Slot(ROff(i))]
       IN /\ tmp' = PolyMul(a, b)
          /\ v' = PolyAdd(v, tmp')
          /\ trace' = trace \o << Op("polymul", "v", i, << a.mode, b.mode >>),
                                  Op("acc", "v", i, << v.mode, tmp'.mode >>) >>
    /\ i' = i + 1
    /\ pc' = IF i + 1 < k THEN "v_mul" ELSE "v_intt"
    /\ UNCHANGED << tparams, caller, encaps_locals, enc_args, enc_bytes,
                    t_prime, A_prime, r, e1, e2, u, m_poly, j, prf_log, writes, xof_count >>

\* ntt::intt(v); v[i] += e2[i]
VIntt ==
    /\ pc = "v_intt"
    /\ v' = PolyAdd(Intt(v), e2)
    /\ trace' = trace \o << Op("intt", "v", 0, << v.mode >>),
                            Op("add", "v", 0, << Intt(v).mode, e2.mode >>) >>
    /\ pc' = "msg"
    /\ UNCHANGED << tparams, caller, encaps_locals, enc_args, enc_bytes,
                    t_prime, A_prime, r, e1, e2, u, tmp, m_poly, i, j, prf_log, writes,
                    xof_count >>

\* m is declared; decode<1>(msg, m); poly_decompress<1>(m); v[i] += m[i]
MsgAdd ==
    /\ pc = "msg"
    /\ m_poly' = PolyDecompress(1, [mode |-> "normal", val |-> Decode(1, msg)])
    /\ v' = PolyAdd(v, m_poly')
    /\ trace' = Append(trace, Op("add", "v", 1, << v.mode, m_poly'.mode >>))
    /\ i' = 0
    /\ pc' = "enc_u"
    /\ UNCHANGED << tparams, caller, encaps_locals, enc_args, enc_bytes,
                    t_prime, A_prime, r, e1, e2, u, tmp, j, prf_log, writes, xof_count >>

\* step 21: poly_compress<du>(u + uoff); encode<du>(u + uoff, enc + encoff)
EncodeU ==
    /\ pc = "enc_u"
    /\ LET p == u[Slot(i * NttN)]
           c == PolyCompress(du, p)
       IN /\ u' = [u EXCEPT ![Slot(i * NttN)] = c]
          /\ cipher' = MemWrite(cipher, EncOffU(i), 32 * du, Encode(du, c))
          /\ writes' = Append(writes, [lo |-> EncOffU(i), hi |-> EncOffU(i) + 32 * du])
          /\ trace' = Append(trace, Op("compress", "u", i, << p.mode >>))
    /\ i' = i + 1
    /\ pc' = IF i + 1 < k THEN "enc_u" ELSE "enc_v"
    /\ UNCHANGED << tparams, entry, pubkey, runs, history, encaps_locals, enc_args,
                    enc_bytes, t_prime, A_prime, r, e1, e2, tmp, v, m_poly, j, prf_log,
                    xof_count >>

\* step 22: poly_compress<dv>(v); encode<dv>(v, enc + encoff)
EncodeV ==
    /\ pc = "enc_v"
    /\ LET c == PolyCompress(dv, v)
       IN /\ v' = c
          /\ cipher' = MemWrite(cipher, EncOffV, 32 * dv, Encode(dv, c))
          /\ writes' = Append(writes, [lo |-> EncOffV, hi |-> EncOffV + 32 * dv])
          /\ trace' = Append(trace, Op("compress", "v", 0, << v.mode >>))
    /\ pc' = "enc_ret"
    /\ UNCHANGED << tparams, entry, pubkey, runs, history, encaps_locals, enc_args,
                    enc_bytes, t_prime, A_prime, r, e1, e2, u, tmp, m_poly, i, j, prf_log,
                    xof_count >>

\* encrypt returns: to encapsulate, or to the caller that called it
EncryptReturn ==
    /\ pc = "enc_ret"
    /\ IF entry = "encrypt"
       THEN /\ history' = Append(history, Summary)
            /\ runs' = runs + 1
            /\ pc' = "idle"
       ELSE /\ pc' = "kdf_copy"
            /\ UNCHANGED << history, runs >>
    /\ UNCHANGED << tparams, entry, pubkey, cipher, encaps_locals, enc_args,
                    enc_bytes, enc_polys, i, j, logs >>

\* -------------------------------------------------------------------- Spec
Next ==
    \/ CallEncapsulate \/ RandomData \/ HashM \/ HashPk \/ HashG \/ EncapsCallEncrypt
    \/ CallEncrypt
    \/ DecodeT \/ Rho \/ XofAbsorb \/ XofParse \/ PrfInit
    \/ RAbsorb \/ RRead \/ E1Init \/ E1Absorb \/ E1Read \/ E2Absorb \/ E2Read
    \/ NttR \/ UInit \/ UMul \/ UIntt \/ VInit \/ VMul \/ VIntt \/ MsgAdd
    \/ EncodeU \/ EncodeV \/ EncryptReturn
    \/ KdfCopy \/ HashC \/ KdfAbsorb \/ EncapsReturn

Spec == Init /\ [][Next]_vars

\* ------------------------------------------------------- reference values
\* program points inside encrypt, and those after its two sampling stages
EncryptPcs == {"decode_t", "rho", "xof_absorb", "xof_parse", "prf_init", "r_absorb",
               "r_read", "e1_init", "e1_absorb", "e1_read", "e2_absorb", "e2_read",
               "ntt", "u_init", "u_mul", "u_intt", "v_init", "v_mul", "v_intt", "msg",
               "enc_u", "enc_v", "enc_ret"}
AfterMatrixPcs == EncryptPcs \ {"decode_t", "rho", "xof_absorb", "xof_parse"}
AfterSamplingPcs == {"ntt", "u_init", "u_mul", "u_intt", "v_init", "v_mul", "v_intt",
                     "msg", "enc_u", "enc_v", "enc_ret"}
AfterEncryptPcs == {"enc_ret", "kdf_copy", "hash_c", "kdf_absorb", "encaps_ret"}

\* Parse(XOF(rho, b32, b33)) of the Kyber specification
RefMatrix(b32, b33) ==
    "parse(shake128(" \o Slice(pubkey, 384 * k, 32) \o "|" \o Str(b32) \o "|" \o Str(b33) \o "))"
\* CBD_eta(PRF(rcoin, n))
RefNoise(eta, n) ==
    [mode |-> "normal",
     val |-> "cbd" \o Str(eta) \o "(" \o
             Slice("shake256(" \o rcoin \o "|" \o Str(n) \o ")", 0, 64 * eta) \o ")"]
\* Decode_12 of public-key bytes [384 * row, 384 * (row + 1))
RefT(row) == [mode |-> "ntt", val |-> Decode(12, Slice(pubkey, 384 * row, 384))]

RECURSIVE RefSumU(_, _)
\* sum over col in [0, n) of polymul(A[row][col], NTT(r[col])), from the zero polynomial
RefSumU(row, n) ==
    IF n = 0 THEN ZeroPoly
    ELSE PolyAdd(RefSumU(row, n - 1),
                 PolyMul([mode |-> "ntt", val |-> RefMatrix(row, n - 1)],
                         Ntt(RefNoise(eta1, n - 1))))
RECURSIVE RefSumV(_)
\* sum over row in [0, n) of polymul(t[row], NTT(r[row]))
RefSumV(n) ==
    IF n = 0 THEN ZeroPoly
    ELSE PolyAdd(RefSumV(n - 1), PolyMul(RefT(n - 1), Ntt(RefNoise(eta1, n - 1))))

RefU(row) == PolyAdd(Intt(RefSumU(row, k)), RefNoise(eta2, k + row))
RefV == PolyAdd(PolyAdd(Intt(RefSumV(k)), RefNoise(eta2, 2 * k)),
                PolyDecompress(1, [mode |-> "normal", val |-> Decode(1, msg)]))

\* the ciphertext the compressed u and v of the state encode to
CipherOf(uu, vv) ==
    [b \in 1..(k * du + dv) |->
        IF b <= k * du
        THEN Slice(Encode(du, uu[(b - 1) \div du]), ((b - 1) % du) * 32, 32)
        ELSE Slice(Encode(dv, vv), (b - 1 - k * du) * 32, 32)]

\* ------------------------------------------------------------------ claims
\* C1 as stated: the message encrypt receives from encapsulate is the sampled m
C1_MsgIsSampledM ==
    (entry = "encapsulate" /\ pc \in EncryptPcs) => msg = m[1]

\* C1, amended: the 32 bytes encapsulate hands to encrypt as msg are H(m), the
\* SHA3-256 of the sampled m and first half of g_in, and that is the message
\* decoded into v; the coin is the second half of G(g_in)
C1_MsgIsHashOfM ==
    (entry = "encapsulate" /\ pc \in EncryptPcs) =>
        /\ msg = Sha3_256(m[1])
        /\ msg = g_in[1]
        /\ rcoin = g_out[2]
        /\ pc \in {"enc_u", "enc_v", "enc_ret"} =>
              m_poly.val = "decompress1(decode1(" \o Sha3_256(m[1]) \o "))"

C1_Witness ==
    entry = "encapsulate" /\ pc = "enc_ret" /\ m = << "rndA" >> /\ msg = "H(rndA)"

\* what the matrix generated so far and the last product must be when entry
\* (row, col) comes from the bytes Seed32(row, col), Seed33(row, col)
MatrixSeededBy(Seed32(_, _), Seed33(_, _)) ==
    /\ pc \in AfterMatrixPcs =>
          \A row \in 0..(k - 1), col \in 0..(k - 1) :
              A_prime[row * k + col].val = RefMatrix(Seed32(row, col), Seed33(row, col))
    /\ (pc \in {"u_mul", "u_intt"} /\ j > 0) =>
          tmp.val = "polymul(" \o RefMatrix(Seed32(i, j - 1), Seed33(i, j - 1)) \o ","
                    \o r[j - 1].val \o ")"
    /\ pc = "xof_parse" =>
          /\ hasher.kind = "shake128"
          /\ hasher.absorbed = Slice(pubkey, 384 * k, 32) \o "|" \o Str(Seed32(i, j))
                               \o "|" \o Str(Seed33(i, j))

SeedRow(row, col) == row
SeedCol(row, col) == col

\* C2 as stated: entry (i, j) is parsed from SHAKE128(rho | j | i)
C2_SeedIsRhoJI == MatrixSeededBy(SeedCol, SeedRow)

\* C2, amended: the entry at row-major index i*k + j, multiplied with r[j] to
\* form u[i], is parsed from SHAKE128(rho | i | j): byte 32 is i, byte 33 is j
C2_SeedIsRhoIJ == MatrixSeededBy(SeedRow, SeedCol)

C2_Witness ==
    /\ k = 3 /\ pc = "u_intt" /\ i = 1 /\ j = 3
    /\ A_prime[1 * k + 2].val = RefMatrix(1, 2)
    /\ A_prime[1 * k + 2].val # RefMatrix(2, 1)

\* the p-th PRF call of one encryption
ExpectedPrf(p) ==
    [n |-> p - 1,
     poly |-> IF p <= k THEN "r" ELSE IF p <= 2 * k THEN "e1" ELSE "e2",
     idx |-> IF p <= 2 * k THEN (p - 1) % k ELSE 0]

\* C3: the PRF is called 2k+1 times, for r[0..k-1], e1[0..k-1], e2 in that
\* order, with counter bytes 0, 1, ..., 2k; N goes up by one per polynomial and
\* stays at most 8
C3_PrfOrder ==
    /\ Len(prf_log) <= 2 * k + 1
    /\ \A p \in 1..Len(prf_log) : prf_log[p] = ExpectedPrf(p)
    /\ pc \in AfterSamplingPcs \cup {"e2_read"} => Len(prf_log) = 2 * k + 1
    /\ pc \in {"r_read", "e1_read", "e2_read"} =>
          /\ hasher.kind = "shake256"
          /\ hasher.absorbed = rcoin \o "|" \o Str(Len(prf_log) - 1)
          /\ N = Len(prf_log) - 1
    /\ pc \in {"r_absorb", "e1_init", "e1_absorb", "e2_absorb"} => N = Len(prf_log)
    /\ N <= 2 * k /\ N <= 8
    /\ pc \in AfterSamplingPcs =>
          /\ \A col \in 0..(k - 1) : r[col].val \in {RefNoise(eta1, col).val,
                                                     Ntt(RefNoise(eta1, col)).val}
          /\ \A row \in 0..(k - 1) : e1[row] = RefNoise(eta2, k + row)
          /\ e2 = RefNoise(eta2, 2 * k)

C3_Witness ==
    k = 4 /\ pc = "enc_ret" /\ Len(prf_log) = 9 /\ prf_log[9].n = 8 /\ N = 8

\* G(H(m) | H(pk)) as two 32-byte halves
RefG == Sha3_512(Sha3_256(m[1]) \o "|" \o Sha3_256(Slice(pubkey, 0, 384 * k + 32)))

\* C4: the returned SHAKE256 handle absorbed exactly the 64 bytes
\* Kbar | H(c): Kbar the first half of G(H(m) | H(pk)), c the whole ciphertext
\* encrypt wrote, the coin of encrypt the second half of the same G output; and
\* H(c) is not computed before encrypt has returned
C4_KdfInput ==
    /\ pc = "encaps_ret" =>
          /\ kdf_hasher.kind = "shake256"
          /\ kdf_hasher.alen = 64
          /\ kdf_hasher.absorbed = RefG[1] \o "|" \o Sha3_256(CipherBytes)
          /\ Len(cipher) * 32 = 32 * (du * k + dv)
          /\ cipher = CipherOf(u, v)
          /\ rcoin = RefG[2]
    /\ (entry = "encapsulate" /\ pc \in EncryptPcs \cup {"kdf_copy", "hash_c"}) =>
          /\ kdf_in[2] = Z32
          /\ rcoin = RefG[2]
    /\ (entry = "encapsulate" /\ pc \in AfterEncryptPcs) => cipher = CipherOf(u, v)

C4_Witness ==
    /\ pc = "encaps_ret" /\ runs = 1 /\ m = << "rndA" >> /\ history[1].rng = << Z32 >>
    /\ kdf_hasher.alen = 64 /\ cipher # history[1].cipher

\* the byte ranges encrypt has to write, in the order it writes them
ExpectedWrites ==
    [p \in 1..(k + 1) |->
        IF p <= k THEN [lo |-> (p - 1) * 32 * du, hi |-> p * 32 * du]
        ELSE [lo |-> k * 32 * du, hi |-> k * 32 * du + 32 * dv]]

\* C5: encrypt writes exactly the bytes [0, 32*(du*k + dv)): u[i] at
\* [i*32*du, (i+1)*32*du), v at [k*32*du, k*32*du + 32*dv); the ranges are
\* pairwise disjoint, cover the ciphertext and nothing outside it is written
C5_OutputRanges ==
    /\ Len(writes) <= k + 1
    /\ \A p \in 1..Len(writes) :
          /\ writes[p] = ExpectedWrites[p]
          /\ 0 <= writes[p].lo /\ writes[p].lo < writes[p].hi /\ writes[p].hi <= ctlen
    /\ \A p, q \in 1..Len(writes) :
          p < q => (writes[p].hi <= writes[q].lo \/ writes[q].hi <= writes[p].lo)
    /\ pc \in AfterEncryptPcs =>
          /\ Len(writes) = k + 1
          /\ \A byte \in 0..(32 * (du * k + dv) - 1) :
                Cardinality({p \in 1..Len(writes) :
                                writes[p].lo <= byte /\ byte < writes[p].hi}) = 1
          /\ \A b \in DOMAIN cipher : cipher[b] = CipherOf(u, v)[b]
          /\ (k = 2 /\ du = 10 /\ dv = 4) => ctlen = 768
          /\ (k = 3 /\ du = 10 /\ dv = 4) => ctlen = 1088
          /\ (k = 4 /\ du = 11 /\ dv = 5) => ctlen = 1568

C5_Witness ==
    /\ pc = "enc_ret" /\ k = 4 /\ du = 11 /\ dv = 5 /\ Len(writes) = 5
    /\ writes[5] = [lo |-> 1408, hi |-> 1568]

ZeroPolyArray(a) == \A s \in DOMAIN a : a[s] = ZeroPoly

\* C6: when encapsulate returns, m, g_in, g_out and kdf_in hold only zero
\* bytes; when encrypt returns, its PRF buffers and r, e1, e2 and the decoded
\* message polynomial hold only zeros
C6_WipedAtReturn ==
    /\ pc = "encaps_ret" =>
          AllZero(m) /\ AllZero(g_in) /\ AllZero(g_out) /\ AllZero(kdf_in)
    /\ pc = "enc_ret" =>
          /\ prf_in = [coin |-> Z32, n |-> 0]
          /\ prf_out_eta1 = ZeroBytes(64 * eta1)
          /\ prf_out_eta2 = ZeroBytes(64 * eta2)
          /\ ZeroPolyArray(r) /\ ZeroPolyArray(e1)
          /\ e2 = ZeroPoly /\ m_poly = ZeroPoly

SameInputs(a, b) ==
    /\ a.entry = b.entry /\ a.pubkey = b.pubkey
    /\ a.msg = b.msg /\ a.rcoin = b.rcoin /\ a.rng = b.rng
SameOutputs(a, b) ==
    /\ a.cipher = b.cipher
    /\ a.kdf.kind = b.kdf.kind /\ a.kdf.absorbed = b.kdf.absorbed
    /\ a.kdf.alen = b.kdf.alen /\ a.kdf.squeezed = b.kdf.squeezed

\* C7: two calls of encrypt with equal (pk, msg, rcoin) write equal
\* ciphertexts; encapsulate asks the RNG once, for 32 bytes, and two calls with
\* equal pk and equal RNG output write equal ciphertexts and return handles
\* that absorbed equal input, whatever the earlier call left behind
C7_Deterministic ==
    /\ \A a, b \in 1..Len(history) :
          SameInputs(history[a], history[b]) => SameOutputs(history[a], history[b])
    /\ \A a \in 1..Len(history) :
          history[a].draws = IF history[a].entry = "encapsulate" THEN << 32 >> ELSE << >>
    /\ Len(rng_log) <= 1
    /\ (entry = "encapsulate" /\ pc \notin {"idle", "rng"}) => rng_log = << 32 >>
    /\ entry = "encrypt" => rng_log = << >>

C7_Witness ==
    /\ Len(history) = 2 /\ history[1].entry = "encapsulate"
    /\ history[1].rng = << "rndA" >> /\ history[2].rng = << "rndA" >>
    /\ history[1].cipher = history[2].cipher
    /\ history[1].kdf.id # history[2].kdf.id

\* C8: the polynomials compressed into the ciphertext are
\* u[i] = INTT(sum_j polymul(A[i][j], NTT(r[j]))) + e1[i], the sum started
\* from zero and A[i][j] read where it was generated, and
\* v = INTT(sum_i polymul(t[i], NTT(r[i]))) + e2 + Decompress_1(Decode_1(msg)),
\* t[i] being Decode_12 of public-key bytes [384*i, 384*(i+1))
C8_ReferenceUV ==
    /\ pc \in AfterMatrixPcs =>
          \A row \in 0..(k - 1), col \in 0..(k - 1) :
              A_prime[Slot(AOff(row, col))] = A_prime[Slot(AGenOff(row, col))]
    /\ pc \in EncryptPcs \ {"decode_t"} =>
          \A row \in 0..(k - 1) : t_prime[row] = RefT(row)
    /\ (pc = "u_mul" \/ pc = "u_intt") =>
          /\ u[i] = RefSumU(i, j)
          /\ \A row \in 0..(i - 1) : u[row] = RefU(row)
    /\ (pc = "v_mul" \/ pc = "v_intt") => v = RefSumV(i)
    /\ (pc = "enc_u" /\ i = 0) =>
          /\ \A row \in 0..(k - 1) : u[row] = RefU(row)
          /\ v = RefV
    /\ pc = "enc_ret" =>
          /\ \A row \in 0..(k - 1) : u[row] = PolyCompress(du, RefU(row))
          /\ v = PolyCompress(dv, RefV)
          /\ cipher = CipherOf([row \in 0..(k - 1) |-> PolyCompress(du, RefU(row))],
                               PolyCompress(dv, RefV))

C8_Witness ==
    /\ pc = "enc_ret" /\ k = 3 /\ entry = "encrypt" /\ msg = "msgA" /\ rcoin = "coinA"
    /\ runs = 1
    /\ v = PolyCompress(dv, RefV)

TraceOf(op, on, idx) ==
    {p \in 1..Len(trace) : trace[p].op = op /\ trace[p].on = on /\ trace[p].idx = idx}
AllPolys ==
    {t_prime[s] : s \in DOMAIN t_prime} \cup {A_prime[s] : s \in DOMAIN A_prime}
    \cup {r[s] : s \in DOMAIN r} \cup {e1[s] : s \in DOMAIN e1}
    \cup {u[s] : s \in DOMAIN u} \cup {e2, tmp, v, m_poly}

\* C9: ntt is applied once to each r[i] and only to normal-mode polynomials,
\* polymul only to two NTT-domain operands, sums accumulate in NTT domain, intt
\* is applied once to each u[i] and once to v and only to NTT-domain values,
\* and e1[i], e2, the message, compress and encode meet only normal-mode
\* polynomials
C9_Modes ==
    /\ \A p \in 1..Len(trace) :
          /\ trace[p].op = "ntt" => trace[p].modes = << "normal" >>
          /\ trace[p].op = "polymul" => trace[p].modes = << "ntt", "ntt" >>
          /\ trace[p].op = "acc" =>
                /\ trace[p].modes[1] \in {"zero", "ntt"}
                /\ trace[p].modes[2] = "ntt"
          /\ trace[p].op = "intt" => trace[p].modes = << "ntt" >>
          /\ trace[p].op = "add" => trace[p].modes = << "normal", "normal" >>
          /\ trace[p].op = "compress" => trace[p].modes = << "normal" >>
    /\ \A p \in AllPolys : p.mode # "invalid"
    /\ \A row \in 0..(k - 1) :
          /\ Cardinality(TraceOf("ntt", "r", row)) <= 1
          /\ Cardinality(TraceOf("intt", "u", row)) <= 1
    /\ Cardinality(TraceOf("intt", "v", 0)) <= 1
    /\ pc \in {"u_init", "u_mul", "u_intt", "v_init", "v_mul", "v_intt", "msg",
               "enc_u", "enc_v", "enc_ret"} =>
          \A row \in 0..(k - 1) :
              Cardinality(TraceOf("ntt", "r", row)) = 1 /\ r[row].mode = "ntt"
    /\ pc \in {"msg", "enc_u", "enc_v", "enc_ret"} =>
          /\ \A row \in 0..(k - 1) :
                Cardinality(TraceOf("intt", "u", row)) = 1 /\ u[row].mode = "normal"
          /\ Cardinality(TraceOf("intt", "v", 0)) = 1 /\ v.mode = "normal"
    /\ pc = "enc_ret" =>
          /\ \A row \in 0..(k - 1) : Cardinality(TraceOf("compress", "u", row)) = 1
          /\ Cardinality(TraceOf("compress", "v", 0)) = 1
          /\ Len(trace) = k + 2 * k * k + 2 * k + 2 * k + 3 + k + 1

C9_Witness ==
    /\ pc = "enc_ret" /\ k = 4 /\ Len(trace) = 60
    /\ \A row \in 0..3 : Cardinality(TraceOf("polymul", "u", row)) = 4

\* absorb-then-squeeze, for one instance that absorbs want bytes
XofProtocol(h, want) ==
    /\ h.inputs <= 1
    /\ ~h.late
    /\ h.squeezed > 0 => h.inputs = 1
    /\ h.inputs = 1 => h.alen = want

\* C10: every SHAKE instance absorbs its whole input (34 bytes for a matrix
\* XOF, 33 for a PRF, 64 for the KDF) before a byte is squeezed, none absorbs
\* after a squeeze or a second input, and the returned handle has absorbed
\* and not been squeezed
C10_AbsorbThenSqueeze ==
    /\ hasher.kind = "shake128" => XofProtocol(hasher, 34)
    /\ hasher.kind = "shake256" => XofProtocol(hasher, 33)
    /\ kdf_hasher.kind # "none" =>
          XofProtocol(kdf_hasher, 64) /\ kdf_hasher.kind = "shake256"
    /\ hasher.kind \in {"none", "shake128", "shake256"}
    /\ pc = "xof_parse" => (hasher.kind = "shake128" /\ hasher.inputs = 1 /\ hasher.squeezed = 0)
    /\ pc \in {"r_read", "e1_read", "e2_read"} =>
          (hasher.kind = "shake256" /\ hasher.inputs = 1 /\ hasher.squeezed = 0)
    /\ pc \in {"r_absorb", "e1_init", "e1_absorb"} \/ (pc = "xof_absorb" /\ i + j > 0)
          \/ pc = "prf_init" \/ pc = "e2_absorb" \/ pc \in AfterSamplingPcs =>
          hasher.squeezed > 0
    /\ hasher.id <= xof_count /\ kdf_hasher.id <= xof_count
    /\ pc = "encaps_ret" =>
          /\ kdf_hasher.id = xof_count /\ kdf_hasher.id # hasher.id
          /\ kdf_hasher.inputs = 1 /\ kdf_hasher.alen = 64 /\ kdf_hasher.squeezed = 0
    /\ \A a \in 1..Len(history) :
          history[a].entry = "encapsulate" =>
              /\ history[a].kdf.inputs = 1 /\ history[a].kdf.alen = 64
              /\ history[a].kdf.squeezed = 0 /\ ~history[a].kdf.late

C10_Witness ==
    /\ pc = "encaps_ret" /\ kdf_hasher.alen = 64 /\ kdf_hasher.squeezed = 0
    /\ hasher.kind = "shake256" /\ hasher.squeezed = 128 /\ hasher.alen = 33
    /\ xof_count = 2 * (k * k + 2 * k + 2)

====
